---- MODULE Spec2Model ----
(***************************************************************************)
(* Model of assembler.cpp, a two-pass assembler for a subset of MIPS.      *)
(*                                                                         *)
(* std::string is modelled as a sequence of one-character strings, so that *)
(* tokenizing, s.find(":"), s[1], s[2] and std::stoi are computed the way  *)
(* the code computes them.  std::bitset<N> is modelled as a sequence of N  *)
(* bits (0/1), most significant first, exactly as bitset::to_string().     *)
(* size_t is 64 bits wide in the program; every size_t value the program   *)
(* computes is consumed either by a comparison or truncated to at most 26  *)
(* bits, so it is modelled modulo SizeT = 2^30 (the widest power of two    *)
(* the checker's integers hold), which preserves wrap-around of 0 - 1.     *)
(***************************************************************************)
EXTENDS Integers, Sequences, FiniteSets, TLC

\* ------------------------------------------------------------------------
\* Bounds of the checked inputs
\* ------------------------------------------------------------------------
MaxText == 2
MaxData == 2
MaxVals == 2
MaxSpace == 1

\* ------------------------------------------------------------------------
\* Machine integers
\* ------------------------------------------------------------------------
SizeT == 2^30

ToInt(x) == IF x >= SizeT \div 2 THEN x - SizeT ELSE x

\* ------------------------------------------------------------------------
\* String literals of the program
\* ------------------------------------------------------------------------
STR_text == <<".", "t", "e", "x", "t">>
STR_data == <<".", "d", "a", "t", "a">>
STR_word == <<".", "w", "o", "r", "d">>
STR_space == <<".", "s", "p", "a", "c", "e">>
STR_syscall == <<"s", "y", "s", "c", "a", "l", "l">>
STR_addiu == <<"a", "d", "d", "i", "u">>
STR_addu == <<"a", "d", "d", "u">>
STR_and == <<"a", "n", "d">>
STR_beq == <<"b", "e", "q">>
STR_bne == <<"b", "n", "e">>
STR_div == <<"d", "i", "v">>
STR_lw == <<"l", "w">>
STR_mfhi == <<"m", "f", "h", "i">>
STR_mflo == <<"m", "f", "l", "o">>
STR_mult == <<"m", "u", "l", "t">>
STR_or == <<"o", "r">>
STR_slt == <<"s", "l", "t">>
STR_subu == <<"s", "u", "b", "u">>
STR_sw == <<"s", "w">>

DelimInstr == {",", " ", "(", ")"}
DelimLabel == {":", " ", ","}

Digits == <<"0", "1", "2", "3", "4", "5", "6", "7", "8", "9">>

\* ------------------------------------------------------------------------
\* boost::tokenizer with char_separator: delimiters dropped, no empty tokens
\* ------------------------------------------------------------------------
RECURSIVE Split(_, _, _, _)
Split(s, delims, cur, acc) ==
    IF s = <<>>
    THEN IF cur = <<>> THEN acc ELSE Append(acc, cur)
    ELSE IF Head(s) \in delims
         THEN Split(Tail(s), delims, <<>>,
                    IF cur = <<>> THEN acc ELSE Append(acc, cur))
         ELSE Split(Tail(s), delims, Append(cur, Head(s)), acc)

Tokenize(s, delims) == Split(s, delims, <<>>, <<>>)

HasChar(s, c) == \E k \in 1..Len(s) : s[k] = c

\* s[k] of a std::string, k counted from 0; s[size()] is the terminating NUL
CharAt(s, k) == IF k + 1 <= Len(s) THEN s[k + 1] ELSE "NUL"

\* Undefined behaviour.  Dereferencing or incrementing an end token iterator:
\* BOOST_ASSERT aborts the run when assertions are compiled in, otherwise
\* the iterator keeps the token it last produced.  Reading ->second of
\* map::end(): a trap, or whatever the header node holds.
\* (mapEnd = -1 stands for the trap.)
UBOutcomes == [iterEnd : {"assert", "stale"},
               mapEnd : {-1, 0, 3, SizeT - 1}]

\* *iter
Deref(toks, pos, ub) ==
    IF pos <= Len(toks) THEN [st |-> "ok", v |-> toks[pos]]
    ELSE IF ub.iterEnd = "assert" THEN [st |-> "abort", v |-> <<>>]
    ELSE [st |-> "ok", v |-> IF toks = <<>> THEN <<>> ELSE toks[Len(toks)]]

\* ++iter
Incr(toks, pos, ub) ==
    IF pos <= Len(toks) THEN [st |-> "ok", pos |-> pos + 1]
    ELSE IF ub.iterEnd = "assert" THEN [st |-> "abort", pos |-> pos]
    ELSE [st |-> "ok", pos |-> pos]

\* map.find(s)->second
Lookup(map, s, ub) ==
    IF s \in DOMAIN map THEN [st |-> "ok", v |-> map[s]]
    ELSE IF ub.mapEnd = -1 THEN [st |-> "abort", v |-> 0]
    ELSE [st |-> "ok", v |-> ub.mapEnd]

\* ------------------------------------------------------------------------
\* std::stoi: optional sign, then the longest run of decimal digits; no
\* digit at all throws std::invalid_argument, which nothing catches.
\* ------------------------------------------------------------------------
DigitVal(c) == CHOOSE d \in 0..9 : Digits[d + 1] = c

IsDigit(c) == \E d \in 0..9 : Digits[d + 1] = c

RECURSIVE StoiDigits(_, _)
StoiDigits(s, acc) ==
    IF s = <<>> \/ ~IsDigit(Head(s)) THEN acc
    ELSE StoiDigits(Tail(s), 10 * acc + DigitVal(Head(s)))

Stoi(s) ==
    LET neg == s # <<>> /\ Head(s) = "-"
        body == IF s # <<>> /\ Head(s) \in {"-", "+"} THEN Tail(s) ELSE s
    IN IF body = <<>> \/ ~IsDigit(Head(body))
       THEN [st |-> "abort", v |-> 0]
       ELSE [st |-> "ok",
             v |-> IF neg THEN 0 - StoiDigits(body, 0) ELSE StoiDigits(body, 0)]

\* ------------------------------------------------------------------------
\* std::bitset
\* ------------------------------------------------------------------------
RECURSIVE ToBits(_, _)
ToBits(n, w) == IF w = 0 THEN <<>> ELSE Append(ToBits(n \div 2, w - 1), n % 2)

RECURSIVE BitsToNat(_)
BitsToNat(b) ==
    IF b = <<>> THEN 0 ELSE 2 * BitsToNat(SubSeq(b, 1, Len(b) - 1)) + b[Len(b)]

Zeros(w) == [k \in 1..w |-> 0]

\* bitset<w>(v), w < 32: the low w bits of the sign-extended value
Bitset(v, w) == ToBits(v % (2^w), w)

\* bitset<32>(int): the low 32 bits of the sign-extended value
Bitset32(v) == ToBits((v \div 65536) % 65536, 16) \o ToBits(v % 65536, 16)

\* bitset<32>(std::string): the first 32 characters, zero-filled on the left
Bitset32FromString(bin) ==
    IF Len(bin) >= 32 THEN SubSeq(bin, 1, 32)
    ELSE Zeros(32 - Len(bin)) \o bin

\* ------------------------------------------------------------------------
\* Operand resolvers.  A result is [st, bits, reg]: st = "ok" with the
\* binary string in bits; st = "exit" after exit(EXIT_FAILURE), reg being
\* the name printed; st = "abort" when an exception escapes or a trap or
\* assertion stops the process.
\* ------------------------------------------------------------------------
Ok(b) == [st |-> "ok", bits |-> b, reg |-> <<>>]

Threw == [st |-> "abort", bits |-> <<>>, reg |-> <<>>]

Exited(s) == [st |-> "exit", bits |-> <<>>, reg |-> s]

\* bin += f(...): the first call that does not return ends the run
Then(a, b) ==
    IF a.st # "ok" THEN a
    ELSE IF b.st # "ok" THEN b
    ELSE Ok(a.bits \o b.bits)

GetReg(s) ==
    LET c1 == CharAt(s, 1)
        c2 == CharAt(s, 2)
        i == Stoi(<<c2>>)
    IN IF c1 = "z" THEN Ok(Bitset(0, 5))
       ELSE IF c1 = "a"
            THEN IF i.st # "ok" THEN Threw
                 ELSE IF c2 = "t" THEN Ok(Bitset(1, 5))
                 ELSE IF i.v < 4 THEN Ok(Bitset(i.v + 4, 5))
                 ELSE Ok(<<1, 1, 1, 1, 1>>)
       ELSE IF c1 = "t"
            THEN IF i.st # "ok" THEN Threw
                 ELSE IF i.v < 8 THEN Ok(Bitset(i.v + 8, 5))
                 ELSE IF i.v = 8 \/ i.v = 9 THEN Ok(Bitset(i.v + 16, 5))
                 ELSE Ok(<<1, 1, 1, 1, 1>>)
       ELSE IF c1 = "v"
            THEN IF i.st # "ok" THEN Threw ELSE Ok(Bitset(i.v + 2, 5))
       ELSE IF c1 = "s"
            THEN IF i.st # "ok" THEN Threw
                 ELSE IF c2 = "p" THEN Ok(Bitset(29, 5))
                 ELSE IF i.v < 8 THEN Ok(Bitset(i.v + 16, 5))
                 ELSE Ok(<<1, 1, 1, 1, 1>>)
       ELSE IF c1 = "k"
            THEN IF i.st # "ok" THEN Threw ELSE Ok(Bitset(i.v + 6, 5))
       ELSE IF c1 = "g" THEN Ok(Bitset(28, 5))
       ELSE IF c1 = "f" THEN Ok(Bitset(30, 5))
       ELSE IF c1 = "r" THEN Ok(Bitset(31, 5))
       ELSE Exited(s)

GetAddress(s, map, ub) ==
    LET loc == Lookup(map, s, ub)
    IN IF loc.st # "ok" THEN Threw ELSE Ok(Bitset(loc.v, 26))

BranchNoIncrement(pc, t) == ToInt((ToInt(t) - pc) % SizeT)

\* ++$pc; loc = (int)target; loc = loc - $pc
BranchDistance(pc, t) == ToInt((ToInt(t) - ((pc + 1) % SizeT)) % SizeT)

GetBranch(pc, s, labels, ub) ==
    LET loc == Lookup(labels, s, ub)
    IN IF loc.st # "ok" THEN Threw
       ELSE Ok(Bitset(BranchDistance(pc, loc.v), 16))

GetOffset(s, map, ub) ==
    IF s \in DOMAIN map
    THEN LET t == Lookup(map, STR_data, ub)
         IN IF t.st # "ok" THEN Threw
            ELSE Ok(Bitset(ToInt((map[s] - t.v) % SizeT), 16))
    ELSE LET o == Stoi(s)
         IN IF o.st # "ok" THEN Threw ELSE Ok(Bitset(o.v % SizeT, 16))

\* ------------------------------------------------------------------------
\* isLabel: a colon or a dot anywhere in s, or s is a key of the table
\* ------------------------------------------------------------------------
isLabel(s, labels) ==
    HasChar(s, ":") \/ HasChar(s, ".") \/ s \in DOMAIN labels

\* map::emplace: an existing key keeps its value
Emplace(map, k, v) == IF k \in DOMAIN map THEN map ELSE (k :> v) @@ map

\* ------------------------------------------------------------------------
\* ParseInstructions, body of the loop for one line that is not a label:
\* the word to insert at lineNum, or how the line failed.
\* st = "bad" is the final else branch (unknown mnemonic).
\* ------------------------------------------------------------------------
Operands(toks, n, ub) ==
    IF \A k \in 2..(n + 1) : Deref(toks, k, ub).st = "ok" THEN Ok(<<>>) ELSE Threw

Op(toks, k, ub) == Deref(toks, k, ub).v

\* addu, and, or, slt, subu: rd, rs, rt on the line
EncodeR(toks, funct, ub) ==
    Then(Operands(toks, 3, ub),
    Then(Ok(<<0, 0, 0, 0, 0, 0>>),
    Then(GetReg(Op(toks, 3, ub)),
    Then(GetReg(Op(toks, 4, ub)),
    Then(GetReg(Op(toks, 2, ub)),
         Ok(<<0, 0, 0, 0, 0>> \o funct))))))

\* div, mult: rs, rt on the line
EncodeRS(toks, funct, ub) ==
    Then(Operands(toks, 2, ub),
    Then(Ok(<<0, 0, 0, 0, 0, 0>>),
    Then(GetReg(Op(toks, 2, ub)),
    Then(GetReg(Op(toks, 3, ub)),
         Ok(Zeros(10) \o funct)))))

\* mfhi, mflo: rd on the line
EncodeRD(toks, funct, ub) ==
    Then(Operands(toks, 1, ub),
    Then(Ok(Zeros(16)),
    Then(GetReg(Op(toks, 2, ub)),
         Ok(<<0, 0, 0, 0, 0>> \o funct))))

\* beq, bne: rs, rt, label on the line
EncodeBranch(toks, opcode, lineNum, labels, ub) ==
    Then(Operands(toks, 3, ub),
    Then(Ok(opcode),
    Then(GetReg(Op(toks, 2, ub)),
    Then(GetReg(Op(toks, 3, ub)),
         GetBranch(lineNum, Op(toks, 4, ub), labels, ub)))))

\* lw, sw: rt, offset, rs on the line
EncodeMem(toks, opcode, labels, ub) ==
    Then(Operands(toks, 3, ub),
    Then(Ok(opcode),
    Then(GetReg(Op(toks, 4, ub)),
    Then(GetReg(Op(toks, 2, ub)),
         GetOffset(Op(toks, 3, ub), labels, ub)))))

\* addiu: rt, rs, imm on the line
EncodeAddiu(toks, ub) ==
    LET imm == Stoi(Op(toks, 4, ub))
    IN Then(Operands(toks, 3, ub),
       Then(Ok(<<0, 0, 1, 0, 0, 1>>),
       Then(GetReg(Op(toks, 3, ub)),
       Then(GetReg(Op(toks, 2, ub)),
            IF imm.st # "ok" THEN Threw ELSE Ok(Bitset(imm.v, 16))))))

\* j: the test is on the first character of the line
IsJump(s, mn) == CharAt(s, 0) = "j"

EncodeJump(toks, labels, ub) ==
    Then(Operands(toks, 1, ub),
    Then(Ok(<<0, 0, 0, 0, 1, 0>>),
         GetAddress(Op(toks, 2, ub), labels, ub)))

\* the chain of comparisons of *iter with the mnemonics
EncodeLine(s, mn, toks, lineNum, labels, ub) ==
             IF mn = STR_syscall THEN Ok(<<1, 1, 0, 0>>)
             ELSE IF IsJump(s, mn) THEN EncodeJump(toks, labels, ub)
             ELSE IF mn = STR_addiu THEN EncodeAddiu(toks, ub)
             ELSE IF mn = STR_addu THEN EncodeR(toks, <<1, 0, 0, 0, 0, 1>>, ub)
             ELSE IF mn = STR_and THEN EncodeR(toks, <<1, 0, 0, 1, 0, 0>>, ub)
             ELSE IF mn = STR_beq
                  THEN EncodeBranch(toks, <<0, 0, 0, 1, 0, 0>>, lineNum, labels, ub)
             ELSE IF mn = STR_bne
                  THEN EncodeBranch(toks, <<0, 0, 0, 1, 0, 1>>, lineNum, labels, ub)
             ELSE IF mn = STR_div THEN EncodeRS(toks, <<0, 1, 1, 0, 1, 0>>, ub)
             ELSE IF mn = STR_lw
                  THEN EncodeMem(toks, <<1, 0, 0, 0, 1, 1>>, labels, ub)
             ELSE IF mn = STR_mfhi THEN EncodeRD(toks, <<0, 1, 0, 0, 0, 0>>, ub)
             ELSE IF mn = STR_mflo THEN EncodeRD(toks, <<0, 1, 0, 0, 1, 0>>, ub)
             ELSE IF mn = STR_mult THEN EncodeRS(toks, <<0, 1, 1, 0, 0, 0>>, ub)
             ELSE IF mn = STR_or THEN EncodeR(toks, <<1, 0, 0, 1, 0, 1>>, ub)
             ELSE IF mn = STR_slt THEN EncodeR(toks, <<1, 0, 1, 0, 1, 0>>, ub)
             ELSE IF mn = STR_subu THEN EncodeR(toks, <<1, 0, 0, 0, 1, 1>>, ub)
             ELSE IF mn = STR_sw
                  THEN EncodeMem(toks, <<1, 0, 1, 0, 1, 1>>, labels, ub)
             ELSE [st |-> "bad", bits |-> <<>>, reg |-> <<>>]

\* bitset<32> bits(bin)
Word(r) == IF r.st = "ok" THEN Ok(Bitset32FromString(r.bits)) ELSE r

Encode(s, toks, lineNum, labels, ub) ==
    Word(EncodeLine(s, toks[1], toks, lineNum, labels, ub))

\* a label line or a line without tokens inserts nothing
ParseInstructionsTokens(s, toks, lineNum, labels, ub) ==
    IF isLabel(s, labels) \/ toks = <<>>
    THEN [st |-> "skip", bits |-> <<>>, reg |-> <<>>]
    ELSE Encode(s, toks, lineNum, labels, ub)

ParseInstructionsLine(s, lineNum, labels, ub) ==
    ParseInstructionsTokens(s, Tokenize(s, DelimInstr), lineNum, labels, ub)

\* ------------------------------------------------------------------------
\* ParseHex: one hexadecimal digit for every group of four bits
\* ------------------------------------------------------------------------
HexDigits == <<"0", "1", "2", "3", "4", "5", "6", "7",
               "8", "9", "a", "b", "c", "d", "e", "f">>

ParseHex(bits) ==
    [k \in 1..(Len(bits) \div 4) |->
        HexDigits[BitsToNat(SubSeq(bits, 4 * k - 3, 4 * k)) + 1]]

\* ------------------------------------------------------------------------
\* Lines written to std::cout
\* ------------------------------------------------------------------------
HexLine(bits) == [kind |-> "hex", text |-> ParseHex(bits), num |-> 0]

BlankLine == [kind |-> "blank", text |-> <<>>, num |-> 0]

BadInstructionLine(n) ==
    [kind |-> "Error! Bad instruction on line", text |-> <<>>, num |-> n]

InvalidRegisterLine(s) == [kind |-> "Invalid register:", text |-> s, num |-> 0]

\* ------------------------------------------------------------------------
\* ParseLabels, body of the loop for line s at index n (counted from 0).
\* p = [labels, numLabels, dataLn, DATA, distData, st]
\* ------------------------------------------------------------------------
WordAdvanceOne(k) == k

\* for (; iter != token.end(); ++iter) distData += 4;
WordAdvance(k) == 4 * k

\* for (int i = 0; i < stop; ++i) distData += 4;
SpaceAdvance(stop) == IF stop > 0 THEN 4 * stop ELSE 0

ParseLabelsData(toks, p, ub) ==
    IF toks = <<>> THEN p
    ELSE LET q == [p EXCEPT !.labels =
                      Emplace(p.labels, toks[1], (p.dataLn + p.distData) % SizeT)]
             second == Deref(toks, 2, ub)
             third == Deref(toks, 3, ub)
             stop == Stoi(third.v)
         IN IF second.st # "ok" THEN [q EXCEPT !.st = "abort"]
            ELSE IF second.v = STR_word
                 THEN [q EXCEPT !.distData =
                          (@ + WordAdvance(IF Len(toks) > 2 THEN Len(toks) - 2 ELSE 0))
                              % SizeT]
            ELSE IF second.v = STR_space
                 THEN IF third.st # "ok" \/ stop.st # "ok"
                      THEN [q EXCEPT !.st = "abort"]
                      ELSE [q EXCEPT !.distData = (@ + SpaceAdvance(stop.v)) % SizeT]
            ELSE q

\* (i - numLabels) - 1 in size_t arithmetic
TextAddress(n, numLabels) == ((n - numLabels) - 1) % SizeT

ParseLabelsText(toks, n, p, first) ==
    [p EXCEPT !.labels = Emplace(p.labels, first, TextAddress(n, p.numLabels)),
              !.DATA = IF first = STR_data THEN TRUE ELSE @,
              !.dataLn = IF first = STR_data
                         THEN TextAddress(n, p.numLabels) ELSE @,
              !.numLabels = @ + 1]

ParseLabelsLine(s, n, p, ub) ==
    IF ~isLabel(s, p.labels) THEN p
    ELSE LET toks == Tokenize(s, DelimLabel)
             first == Deref(toks, 1, ub)
         IN IF first.st # "ok" THEN [p EXCEPT !.st = "abort"]
            ELSE IF first.v = STR_text THEN p
            ELSE IF p.DATA THEN ParseLabelsData(toks, p, ub)
            ELSE ParseLabelsText(toks, n, p, first.v)

\* ------------------------------------------------------------------------
\* AddData, body of the while loop over the tokens of one line.
\* a = [DATA, lineNum, instructions, st]
\* ------------------------------------------------------------------------
Emit(a, bits) ==
    [a EXCEPT !.instructions = Emplace(@, a.lineNum, bits),
              !.lineNum = (@ + 1) % SizeT]

RECURSIVE EmitZeros(_, _)
EmitZeros(a, n) == IF n <= 0 THEN a ELSE EmitZeros(Emit(a, Zeros(32)), n - 1)

\* for (; iter != token.end(); ++iter) emplace(stoi(*iter))
RECURSIVE EmitWords(_, _, _)
EmitWords(toks, pos, a) ==
    IF pos > Len(toks) THEN a
    ELSE LET v == Stoi(toks[pos])
         IN IF v.st # "ok" THEN [a EXCEPT !.st = "abort"]
            ELSE EmitWords(toks, pos + 1, Emit(a, Bitset32(v.v)))

\* .space: int numBytes = stoi(*(++iter)); then numBytes zero words
EmitSpace(toks, pos, a, ub) ==
    LET inc == Incr(toks, pos, ub)
        arg == Deref(toks, inc.pos, ub)
        n == Stoi(arg.v)
    IN IF inc.st # "ok" \/ arg.st # "ok" \/ n.st # "ok"
       THEN [st |-> "abort", pos |-> pos, a |-> [a EXCEPT !.st = "abort"]]
       ELSE [st |-> "ok", pos |-> inc.pos, a |-> EmitZeros(a, n.v)]

\* the branch taken for a token that isLabel rejects
AddDataPlain(toks, pos, a, ub) ==
    IF toks[pos] = STR_word
    THEN [st |-> "ok", pos |-> Len(toks) + 1, a |-> EmitWords(toks, pos + 1, a)]
    ELSE IF toks[pos] = STR_space
    THEN EmitSpace(toks, pos, a, ub)
    ELSE IF a.DATA
    THEN LET v == Stoi(toks[pos])
         IN IF v.st # "ok"
            THEN [st |-> "abort", pos |-> pos, a |-> [a EXCEPT !.st = "abort"]]
            ELSE [st |-> "ok", pos |-> pos, a |-> Emit(a, Bitset32(v.v))]
    ELSE [st |-> "ok", pos |-> pos, a |-> a]

\* ic->second >= dataLoc
InDataSegment(addr, dataLoc) == addr >= dataLoc

\* the branch taken for a token that isLabel accepts
AddDataLabel(toks, pos, a, labels, dataLoc, ub) ==
    LET ic == Lookup(labels, toks[pos], ub)
        nxt == Deref(toks, pos + 1, ub)
        val == Stoi(toks[pos + 2])
    IN IF ic.st # "ok"
       THEN [st |-> "abort", pos |-> pos, a |-> [a EXCEPT !.st = "abort"]]
       ELSE IF ~InDataSegment(ic.v, dataLoc)
       THEN [st |-> "ok", pos |-> pos, a |-> a]
       ELSE IF nxt.st # "ok"
       THEN [st |-> "abort", pos |-> pos, a |-> [a EXCEPT !.st = "abort"]]
       ELSE IF nxt.v = STR_word
       THEN IF pos + 2 > Len(toks)
            THEN [st |-> "ok", pos |-> Len(toks) + 1, a |-> a]
            ELSE IF val.st # "ok"
            THEN [st |-> "abort", pos |-> pos, a |-> [a EXCEPT !.st = "abort"]]
            ELSE [st |-> "ok", pos |-> pos + 2, a |-> Emit(a, Bitset32(val.v))]
       ELSE IF nxt.v = STR_space
       THEN EmitSpace(toks, pos + 1, a, ub)
       ELSE [st |-> "ok", pos |-> pos + 1, a |-> a]

RECURSIVE AddDataTokens(_, _, _, _, _, _)
AddDataTokens(toks, pos, a, labels, dataLoc, ub) ==
    IF a.st # "ok" \/ pos > Len(toks) THEN a
    ELSE LET r == IF toks[pos] = STR_data
                  THEN [st |-> "ok", pos |-> pos, a |-> [a EXCEPT !.DATA = TRUE]]
                  ELSE IF toks[pos] = STR_text
                  THEN [st |-> "ok", pos |-> pos, a |-> a]
                  ELSE IF ~isLabel(toks[pos], labels)
                  THEN AddDataPlain(toks, pos, a, ub)
                  ELSE AddDataLabel(toks, pos, a, labels, dataLoc, ub)
             inc == Incr(toks, r.pos, ub)
         IN IF r.st # "ok" THEN r.a
            ELSE IF inc.st # "ok" THEN [r.a EXCEPT !.st = "abort"]
            ELSE AddDataTokens(toks, inc.pos, r.a, labels, dataLoc, ub)

\* size_t lineNum = instructions.size() + 1;
FirstDataAddress(instr) == Cardinality(DOMAIN instr) + 1

\* ------------------------------------------------------------------------
\* State
\* ------------------------------------------------------------------------
\* pc is the function the process is in; run tells whether it still runs,
\* has called exit(EXIT_FAILURE), or was aborted (std::terminate, trap)
VARIABLES src, pc, run, i, labels, numLabels, dataLn, DATA, distData,
          lineNum, instructions, dataLoc, out

vars == <<src, pc, run, i, labels, numLabels, dataLn, DATA, distData,
          lineNum, instructions, dataLoc, out>>

EmptyMap == [x \in {} |-> 0]

\* the state in which ParseInstructions calls ParseLabels, for source S
InitWith(S) ==
    /\ src = S
    /\ pc = "ParseLabels"
    /\ run = "running"
    /\ i = 0
    /\ labels = EmptyMap
    /\ numLabels = 0
    /\ dataLn = 0
    /\ DATA = FALSE
    /\ distData = 0
    /\ lineNum = 0
    /\ instructions = EmptyMap
    /\ dataLoc = 0
    /\ out = <<>>

\* ------------------------------------------------------------------------
\* Actions
\* ------------------------------------------------------------------------
ParseLabelsStep ==
    /\ pc = "ParseLabels"
    /\ run = "running"
    /\ i < Len(src)
    /\ \E ub \in UBOutcomes :
         \E p \in {ParseLabelsLine(src[i + 1], i,
                     [labels |-> labels, numLabels |-> numLabels,
                      dataLn |-> dataLn, DATA |-> DATA,
                      distData |-> distData, st |-> "ok"], ub)} :
            /\ labels' = p.labels
            /\ numLabels' = p.numLabels
            /\ dataLn' = p.dataLn
            /\ DATA' = p.DATA
            /\ distData' = p.distData
            /\ run' = IF p.st = "ok" THEN run ELSE "aborted"
    /\ i' = i + 1
    /\ UNCHANGED <<src, pc, lineNum, instructions, dataLoc, out>>

ParseLabelsReturn ==
    /\ pc = "ParseLabels"
    /\ run = "running"
    /\ i = Len(src)
    /\ pc' = "ParseInstructions"
    /\ i' = 0
    /\ UNCHANGED <<src, run, labels, numLabels, dataLn, DATA, distData,
                   lineNum, instructions, dataLoc, out>>

AfterInvalidRegisterContinue == "running"

\* exit(EXIT_FAILURE)
AfterInvalidRegister == "exited"

ParseInstructionsStep ==
    /\ pc = "ParseInstructions"
    /\ run = "running"
    /\ i < Len(src)
    /\ \E ub \in UBOutcomes :
         \E r \in {ParseInstructionsLine(src[i + 1], lineNum, labels, ub)} :
            /\ instructions' = IF r.st = "ok"
                               THEN Emplace(instructions, lineNum, r.bits)
                               ELSE instructions
            /\ lineNum' = IF r.st \in {"ok", "bad"} THEN lineNum + 1 ELSE lineNum
            /\ out' = IF r.st = "bad" THEN Append(out, BadInstructionLine(lineNum))
                      ELSE IF r.st = "exit"
                      THEN Append(out, InvalidRegisterLine(r.reg))
                      ELSE out
            /\ run' = IF r.st = "exit" THEN AfterInvalidRegister
                      ELSE IF r.st = "abort" THEN "aborted"
                      ELSE run
    /\ i' = i + 1
    /\ UNCHANGED <<src, pc, labels, numLabels, dataLn, DATA, distData, dataLoc>>

AddDataBegin ==
    /\ pc = "ParseInstructions"
    /\ run = "running"
    /\ i = Len(src)
    /\ \E ub \in UBOutcomes :
         \E it \in {Lookup(labels, STR_data, ub)} :
            /\ dataLoc' = it.v
            /\ run' = IF it.st = "ok" THEN run ELSE "aborted"
    /\ pc' = "AddData"
    /\ DATA' = FALSE
    /\ lineNum' = FirstDataAddress(instructions)
    /\ i' = 0
    /\ UNCHANGED <<src, labels, numLabels, dataLn, distData, instructions, out>>

AddDataStep ==
    /\ pc = "AddData"
    /\ run = "running"
    /\ i < Len(src)
    /\ \E ub \in UBOutcomes :
         \E a \in {AddDataTokens(Tokenize(src[i + 1], DelimLabel), 1,
                     [DATA |-> DATA, lineNum |-> lineNum,
                      instructions |-> instructions, st |-> "ok"],
                     labels, dataLoc, ub)} :
            /\ DATA' = a.DATA
            /\ lineNum' = a.lineNum
            /\ instructions' = a.instructions
            /\ run' = IF a.st = "ok" THEN run ELSE "aborted"
    /\ i' = i + 1
    /\ UNCHANGED <<src, pc, labels, numLabels, dataLn, distData, dataLoc, out>>

DisplayBegin ==
    /\ pc = "AddData"
    /\ run = "running"
    /\ i = Len(src)
    /\ out' = Append(out, BlankLine)
    /\ pc' = "Display"
    /\ i' = 0
    /\ UNCHANGED <<src, run, labels, numLabels, dataLn, DATA, distData,
                   lineNum, instructions, dataLoc>>

\* the key the map iterator stands on after n increments from begin()
NthKey(map, n) ==
    CHOOSE k \in DOMAIN map : Cardinality({j \in DOMAIN map : j < k}) = n

DisplayStep ==
    /\ pc = "Display"
    /\ i < Cardinality(DOMAIN instructions)
    /\ out' = Append(out, HexLine(instructions[NthKey(instructions, i)]))
    /\ i' = i + 1
    /\ UNCHANGED <<src, pc, run, labels, numLabels, dataLn, DATA, distData,
                   lineNum, instructions, dataLoc>>

DisplayReturn ==
    /\ pc = "Display"
    /\ i = Cardinality(DOMAIN instructions)
    /\ pc' = "returned"
    /\ UNCHANGED <<src, run, i, labels, numLabels, dataLn, DATA, distData,
                   lineNum, instructions, dataLoc, out>>

Next ==
    \/ ParseLabelsStep
    \/ ParseLabelsReturn
    \/ ParseInstructionsStep
    \/ AddDataBegin
    \/ AddDataStep
    \/ DisplayBegin
    \/ DisplayStep
    \/ DisplayReturn

\* ------------------------------------------------------------------------
\* Source files: sourceCode as the read loop of ParseInstructions leaves it,
\* one string for every line of the file
\* ------------------------------------------------------------------------
SP == <<" ">>

COMMA == <<",", " ">>

LabelLine(name) == name \o <<":">>

Instr1(mn, a) == mn \o SP \o a

Instr2(mn, a, b) == mn \o SP \o a \o COMMA \o b

Instr3(mn, a, b, c) == mn \o SP \o a \o COMMA \o b \o COMMA \o c

InstrMem(mn, rt, off, rs) ==
    mn \o SP \o rt \o COMMA \o off \o <<"(">> \o rs \o <<")">>

RECURSIVE DecimalNat(_)
DecimalNat(n) ==
    IF n < 10 THEN <<Digits[n + 1]>>
    ELSE Append(DecimalNat(n \div 10), Digits[(n % 10) + 1])

Decimal(n) == IF n < 0 THEN <<"-">> \o DecimalNat(0 - n) ELSE DecimalNat(n)

RECURSIVE DecimalList(_)
DecimalList(vals) ==
    IF Len(vals) = 1 THEN Decimal(vals[1])
    ELSE Decimal(Head(vals)) \o <<",">> \o DecimalList(Tail(vals))

LabelPrefix(lab) == IF lab = <<>> THEN <<>> ELSE lab \o <<":", " ">>

WordLine(lab, vals) == LabelPrefix(lab) \o STR_word \o SP \o DecimalList(vals)

SpaceLine(lab, n) == LabelPrefix(lab) \o STR_space \o SP \o Decimal(n)

SeqsUpTo(S, n) == UNION {[1..k -> S] : k \in 0..n}

NameL1 == <<"L", "1">>
NameL2 == <<"L", "2">>
NameA == <<"A">>
NameB == <<"B">>

RegZero == <<"$", "z", "e", "r", "o">>
RegT0 == <<"$", "t", "0">>
RegT1 == <<"$", "t", "1">>
RegT2 == <<"$", "t", "2">>
RegGp == <<"$", "g", "p">>

\* the register names of the MIPS register file, number 0 first
StdRegs ==
    << RegZero, <<"$", "a", "t">>, <<"$", "v", "0">>, <<"$", "v", "1">>,
       <<"$", "a", "0">>, <<"$", "a", "1">>, <<"$", "a", "2">>, <<"$", "a", "3">>,
       RegT0, RegT1, RegT2, <<"$", "t", "3">>,
       <<"$", "t", "4">>, <<"$", "t", "5">>, <<"$", "t", "6">>, <<"$", "t", "7">>,
       <<"$", "s", "0">>, <<"$", "s", "1">>, <<"$", "s", "2">>, <<"$", "s", "3">>,
       <<"$", "s", "4">>, <<"$", "s", "5">>, <<"$", "s", "6">>, <<"$", "s", "7">>,
       <<"$", "t", "8">>, <<"$", "t", "9">>, <<"$", "k", "0">>, <<"$", "k", "1">>,
       RegGp, <<"$", "s", "p">>, <<"$", "f", "p">>, <<"$", "r", "a">> >>

StdRegNames == {StdRegs[n] : n \in 1..32}

StdRegNumber(r) == (CHOOSE n \in 1..32 : StdRegs[n] = r) - 1

OtherRegNames ==
    { <<"$", "a", "5">>, <<"$", "s", "9">>, <<"$", "k", "9">>, <<"$", "v", "7">>,
      <<"$", "f", "o", "o">>, <<"$", "z", "z">>, <<"$", "r", "1">>,
      <<"$", "x", "0">>, <<"$", "8">>, <<"$">> }

TextTail == <<STR_data, WordLine(NameA, <<7>>), WordLine(NameB, <<8>>)>>

Prefixes == {<<>>, <<STR_text>>}

BeqL1 == Instr3(STR_beq, RegT0, RegT1, NameL1)
BneL2 == Instr3(STR_bne, RegT0, RegZero, NameL2)
JumpL1 == Instr1(<<"j">>, NameL1)
JalA == Instr1(<<"j", "a", "l">>, NameA)
FooT0 == Instr1(<<"f", "o", "o">>, RegT0)
LwB == InstrMem(STR_lw, RegT0, NameB, RegGp)
LwL2 == InstrMem(STR_lw, RegT0, NameL2, RegGp)
SwLit == InstrMem(STR_sw, RegT1, Decimal(-4), RegT0)
AddiuNeg == Instr3(STR_addiu, RegT0, RegZero, Decimal(-1))
MfhiX0 == Instr1(STR_mfhi, <<"$", "x", "0">>)

FlowLines ==
    {LabelLine(NameL1), LabelLine(NameL2), STR_syscall, BeqL1, BneL2, JumpL1}

ErrLines == {LabelLine(NameL1), FooT0, JalA, LwB, LwL2, SwLit, MfhiX0}

TextPrograms(lines) ==
    {p \o body \o TextTail : p \in Prefixes, body \in SeqsUpTo(lines, MaxText)}

DataLines ==
    {WordLine(l, [k \in 1..n |-> k]) : l \in {<<>>, NameA, NameB}, n \in 1..MaxVals}
      \cup {SpaceLine(l, n) : l \in {<<>>, NameA, NameB}, n \in 1..MaxSpace}
      \cup {WordLine(NameA, <<-1>>)}

DataPrograms ==
    {<<STR_text, STR_syscall, STR_data>> \o body : body \in SeqsUpTo(DataLines, MaxData)}

RegLines(r) ==
    { Instr1(STR_mfhi, r), Instr1(STR_mflo, r), Instr2(STR_div, RegT1, r),
      Instr3(STR_addu, r, RegT1, RegT2), InstrMem(STR_lw, r, Decimal(4), RegT1) }

\* the last string is the empty line read at the end of the file
RegPrograms ==
    {<<STR_text, l, STR_data, WordLine(NameA, <<7>>), <<>> >> :
        l \in UNION {RegLines(r) : r \in StdRegNames \cup OtherRegNames}}

\* a branch at address 2 to a label at address 5; .word 1,2,3 followed by
\* another label; a data segment placed before the text segment
Examples ==
    { <<STR_text, STR_syscall, AddiuNeg, BeqL1, STR_syscall, STR_syscall,
        LabelLine(NameL1), STR_syscall>> \o TextTail,
      <<STR_text, STR_syscall, STR_data, WordLine(NameA, <<1, 2, 3>>),
        WordLine(NameB, <<4>>)>>,
      <<STR_data, WordLine(NameA, <<1>>), STR_text, LabelLine(NameL1),
        STR_syscall>> }

Sources ==
    TextPrograms(FlowLines) \cup TextPrograms(ErrLines) \cup DataPrograms
      \cup RegPrograms \cup Examples

Init == \E S \in Sources : InitWith(S)

Spec == Init /\ [][Next]_vars

TypeOK ==
    /\ pc \in {"ParseLabels", "ParseInstructions", "AddData", "Display",
               "returned"}
    /\ run \in {"running", "exited", "aborted"}
    /\ i \in 0..20
    /\ \A a \in DOMAIN instructions : Len(instructions[a]) = 32

\* ------------------------------------------------------------------------
\* Vocabulary of the properties
\* ------------------------------------------------------------------------
Toks(s) == Tokenize(s, DelimInstr)

LToks(s) == Tokenize(s, DelimLabel)

\* a line pass 2 dispatches on: not a label line, and not empty
IsInstructionLine(s) == ~isLabel(s, labels) /\ Toks(s) # <<>>

HasLabel(s) == HasChar(s, ":") /\ LToks(s) # <<>>

\* line k (counted from 1) comes after a .data line
InDataMode(k) ==
    \E d \in 1..(k - 1) : LToks(src[d]) # <<>> /\ LToks(src[d])[1] = STR_data

\* no earlier line starts with the name that line k starts with
FirstBound(k) ==
    \A e \in 1..(k - 1) :
        LToks(src[e]) = <<>> \/ LToks(src[e])[1] # LToks(src[k])[1]

Low16(w) == BitsToNat(SubSeq(w, 17, 32))

HexWritten == \E k \in 1..Len(out) : out[k].kind = "hex"

FatalReported == \E k \in 1..Len(out) : out[k].kind = "Invalid register:"

Pass2Done(k) == pc = "ParseInstructions" /\ i = k /\ k >= 1

\* the source opens with the .text directive
OpensWithText == src[1] = STR_text

\* ------------------------------------------------------------------------
\* C1.  A beq or bne line that pass 2 encodes at address p, whose target
\* label is bound to t, gets the 16-bit field (t - (p + 1)) mod 2^16.
\* (After the step lineNum = p + 1 and the word sits at lineNum - 1.)
\* ------------------------------------------------------------------------
BranchEncoded ==
    /\ pc = "ParseInstructions"
    /\ run = "running"
    /\ i >= 1
    /\ IsInstructionLine(src[i])
    /\ Toks(src[i])[1] \in {STR_beq, STR_bne}
    /\ Len(Toks(src[i])) >= 4
    /\ Toks(src[i])[4] \in DOMAIN labels
    /\ (lineNum - 1) \in DOMAIN instructions

C1_BranchDisplacement ==
    BranchEncoded =>
        Low16(instructions[lineNum - 1])
            = (labels[Toks(src[i])[4]] - lineNum) % 65536

C1_Witness ==
    /\ BranchEncoded
    /\ lineNum = 3
    /\ labels[Toks(src[i])[4]] = 5
    /\ Low16(instructions[2]) = 2

\* ------------------------------------------------------------------------
\* C2.  The address pass 1 binds to a label defined outside the data
\* segment is the address at which pass 2 inserts the first instruction
\* line after the label line.
\* ------------------------------------------------------------------------
C2_LabelIsNextInstruction ==
    (pc = "ParseInstructions" /\ run = "running" /\ i < Len(src)
        /\ IsInstructionLine(src[i + 1]))
    => \A k \in 1..i :
          (/\ HasLabel(src[k])
           /\ ~InDataMode(k)
           /\ FirstBound(k)
           /\ \A c \in (k + 1)..i : ~IsInstructionLine(src[c]))
          => labels[LToks(src[k])[1]] = lineNum

\* ------------------------------------------------------------------------
\* C3.  After AddData, with N instruction lines (all of them supported
\* mnemonics) and D data words, the addresses of the word stream are
\* exactly 0 .. N + D - 1, the first data word being at N.  (Stated for
\* sources that open with .text and have at least one instruction.)
\* ------------------------------------------------------------------------
NumInstructionLines ==
    Cardinality({k \in 1..Len(src) : IsInstructionLine(src[k])})

C3_DenseAddresses ==
    (pc \in {"Display", "returned"}
        /\ OpensWithText
        /\ NumInstructionLines >= 1
        /\ \A k \in 1..Len(out) : out[k].kind # "Error! Bad instruction on line")
    => /\ \A a \in 0..(NumInstructionLines - 1) : a \in DOMAIN instructions
       /\ DOMAIN instructions = 0..(Cardinality(DOMAIN instructions) - 1)

\* ------------------------------------------------------------------------
\* C4.  In pass 1, after the data-segment line A: .word v1,...,vk (or
\* A: .space n) the next labelled line B: is bound to A + k (A + n).
\* (The original statement is checked on sources that open with .text.)
\* As amended: to A + 4k (A + 4n), A and B being names no earlier line
\* starts with.
\* ------------------------------------------------------------------------
DataDirectiveLine(a) ==
    /\ HasLabel(src[a])
    /\ Len(LToks(src[a])) >= 3
    /\ LToks(src[a])[2] \in {STR_word, STR_space}
    /\ InDataMode(a)

\* k of .word v1,...,vk, n of .space n
DirectiveCount(a) ==
    IF LToks(src[a])[2] = STR_word THEN Len(LToks(src[a])) - 2
    ELSE Stoi(LToks(src[a])[3]).v

NextLabelLine(a, b) ==
    /\ a < b
    /\ HasLabel(src[b])
    /\ \A c \in (a + 1)..(b - 1) : ~HasLabel(src[c])

\* pass 1 has read line b, and has bound the names of lines a and b
BothBound(a, b) ==
    /\ pc = "ParseLabels"
    /\ i >= b
    /\ NextLabelLine(a, b)
    /\ DataDirectiveLine(a)
    /\ FirstBound(a)
    /\ FirstBound(b)
    /\ LToks(src[a])[1] \in DOMAIN labels
    /\ LToks(src[b])[1] \in DOMAIN labels

RegFieldHolds(first, r) ==
    /\ run = "running"
    /\ (lineNum - 1) \in DOMAIN instructions
    /\ SubSeq(instructions[lineNum - 1], first, first + 4)
          = ToBits(StdRegNumber(r), 5)

C5_StandardRegisterCodes ==
    \A r \in StdRegNames :
        /\ (Pass2Done(i) /\ src[i] \in {Instr1(STR_mfhi, r), Instr1(STR_mflo, r),
                                        Instr3(STR_addu, r, RegT1, RegT2)})
              => RegFieldHolds(17, r)
        /\ (Pass2Done(i) /\ src[i] \in {Instr2(STR_div, RegT1, r),
                                        InstrMem(STR_lw, r, Decimal(4), RegT1)})
              => RegFieldHolds(12, r)

\* ------------------------------------------------------------------------
\* C6.  A non-label line whose first token is not a supported mnemonic is
\* reported, inserts no word, advances the address counter by one, and the
\* run goes on.
\* ------------------------------------------------------------------------
Supported ==
    {STR_syscall, <<"j">>, STR_addiu, STR_addu, STR_and, STR_or, STR_slt,
     STR_subu, STR_beq, STR_bne, STR_div, STR_mult, STR_mfhi, STR_mflo,
     STR_lw, STR_sw}

C6_UnknownMnemonicSkipped ==
    (Pass2Done(i) /\ IsInstructionLine(src[i]) /\ Toks(src[i])[1] \notin Supported)
    => /\ run = "running"
       /\ out # <<>>
       /\ out[Len(out)] = BadInstructionLine(lineNum - 1)
       /\ (lineNum - 1) \notin DOMAIN instructions

\* ------------------------------------------------------------------------
\* C7.  A register name that is not a standard one aborts the run at once:
\* no word is inserted for the instruction.
\* ------------------------------------------------------------------------
C7_UnknownRegisterFatal ==
    (Pass2Done(i) /\ \E r \in OtherRegNames : src[i] \in RegLines(r))
    => /\ run # "running"
       /\ lineNum \notin DOMAIN instructions

\* ------------------------------------------------------------------------
\* C8.  A branch, jump or memory-offset operand that names a label missing
\* from the symbol table stops pass 2; no word is inserted for the line.
\* ------------------------------------------------------------------------
LabelOperand(s) ==
    IF Toks(s)[1] \in {STR_beq, STR_bne} THEN Toks(s)[4]
    ELSE IF Toks(s)[1] = <<"j">> THEN Toks(s)[2]
    ELSE Toks(s)[3]

RefersToMissingLabel(s) ==
    /\ IsInstructionLine(s)
    /\ Toks(s)[1] \in {STR_beq, STR_bne, <<"j">>, STR_lw, STR_sw}
    /\ Stoi(LabelOperand(s)).st # "ok"
    /\ LabelOperand(s) \notin DOMAIN labels

C8_MissingLabelStopsPass2 ==
    (Pass2Done(i) /\ RefersToMissingLabel(src[i]))
    => /\ run # "running"
       /\ lineNum \notin DOMAIN instructions

\* ------------------------------------------------------------------------
\* C9.  Hex lines are written only after pass 2 and AddData have completed;
\* a run that ended in a fatal error has written none.
\* ------------------------------------------------------------------------
C9_NoOutputBeforeCompletion ==
    /\ HexWritten => pc \in {"Display", "returned"}
    /\ (run # "running" \/ FatalReported) => ~HexWritten

C9_Witness ==
    /\ run = "exited"
    /\ FatalReported
    /\ instructions # EmptyMap
    /\ ~HexWritten

\* ------------------------------------------------------------------------
\* C10.  For a data-segment line .word v1,...,vk, with or without a label,
\* AddData appends exactly the k words v1,...,vk at consecutive addresses;
\* for .space n it appends exactly n zero words.  (Stated for sources that
\* open with .text.)
\* ------------------------------------------------------------------------
\* position of the directive among the tokens of line k, 0 if there is none
DirectiveAt(k) ==
    IF LToks(src[k]) # <<>> /\ LToks(src[k])[1] \in {STR_word, STR_space} THEN 1
    ELSE IF HasLabel(src[k]) /\ Len(LToks(src[k])) >= 2
            /\ LToks(src[k])[2] \in {STR_word, STR_space} THEN 2
    ELSE 0

ExpectedWords(k) ==
    LET t == LToks(src[k])
        d == DirectiveAt(k)
    IN IF t[d] = STR_word
       THEN [m \in 1..(Len(t) - d) |-> Bitset32(Stoi(t[d + m]).v)]
       ELSE [m \in 1..Stoi(t[d + 1]).v |-> Zeros(32)]

C10_DataWordsAppended ==
    [][(pc = "AddData" /\ run = "running" /\ i < Len(src) /\ OpensWithText
          /\ InDataMode(i + 1) /\ DirectiveAt(i + 1) > 0)
       => LET w == ExpectedWords(i + 1)
          IN /\ run' = "running"
             /\ lineNum' = lineNum + Len(w)
             /\ DOMAIN instructions'
                   = DOMAIN instructions \cup (lineNum..(lineNum + Len(w) - 1))
             /\ \A m \in 1..Len(w) : instructions'[lineNum + m - 1] = w[m]]_vars

====
